---- MODULE Spec2Model ----
(***************************************************************************)
(* State-machine model of the nest-backend authentication service:         *)
(* AuthService (register / login / refresh / logout), the JwtStrategy      *)
(* gate, AuthController's cookie transport and UserService's CRUD over     *)
(* the single Prisma `User` table.                                         *)
(*                                                                         *)
(* Every HTTP request is one action (the whole handler, guard included).   *)
(* Strings that live in the same column or cookie are tagged records so    *)
(* that a token, a bcrypt hash, a raw client string and SQL NULL can be    *)
(* compared with each other:                                               *)
(*   [t |-> "null"]                      null / undefined                  *)
(*   [t |-> "str", s |-> ...]            a raw string a client typed       *)
(*   [t |-> "bcrypt", salt, s]           bcrypt.hash(s, 10) with that salt *)
(*   [t |-> "jwt", key, sub, email, iat, exp]   a signed JWT               *)
(* The createdAt / updatedAt columns, which no handler reads, are left out. *)
(***************************************************************************)
EXTENDS Integers, FiniteSets, Sequences, TLC

VARIABLES
    users,      \* the `users` table: id -> row
    nextId,     \* the autoincrement sequence of User.id
    now,        \* wall clock, seconds since the epoch (Date.now() / 1000)
    ticks,      \* how many times the clock has advanced
    nodeEnv,    \* process.env.NODE_ENV
    issued,     \* every token the service has ever handed to a client
    updates,    \* how many PUT /users/:id requests have been applied
    req,        \* the request handled last
    resp,       \* the response to it
    calls       \* caller -> its service call suspended at an await, if any

vars == <<users, nextId, now, ticks, nodeEnv, issued, updates, req, resp, calls>>

-----------------------------------------------------------------------------
(* Bounds of the model *)

MaxUsers == 2
MaxTicks == 1
MaxIssued == 2
MaxUpdates == 1
MaxCallers == 2

(* Program constants *)

AccessTTL == 900
RefreshTTL == 604800
AccessCookieMaxAge == 900000
RefreshCookieMaxAge == 604800000

-----------------------------------------------------------------------------
(* Values *)

Null == [t |-> "null"]

Str(s) == [t |-> "str", s |-> s]

NullAge == -1

Emails == {"a@x.com", "b@x.com"}

Passwords == {"p1", "p2"}

Names == {"A"}

Ages == {NullAge}

Salts == {"s1"}

NodeEnvs == {"production", "development"}

TickSteps == {1, AccessTTL, RefreshTTL}

JwtSecret == "JWT_SECRET"

OtherSecret == "other-secret"

-----------------------------------------------------------------------------
(* bcrypt *)

bcryptHash(plain, salt) == [t |-> "bcrypt", salt |-> salt, s |-> plain]

bcryptCompare(plain, hash) == hash.t = "bcrypt" /\ hash.s = plain

-----------------------------------------------------------------------------
(* JwtService: sign and verify *)

IssuerSecret == JwtSecret

jwtSign(payload, expiresIn) ==
    [t |-> "jwt", key |-> IssuerSecret, sub |-> payload.sub,
     email |-> payload.email, iat |-> now, exp |-> now + expiresIn]

jwtValid(token, secret) ==
    /\ token.t = "jwt"
    /\ token.key = secret
    /\ now < token.exp

jwtPayload(token) == [email |-> token.email, sub |-> token.sub]

-----------------------------------------------------------------------------
(* The users table (Prisma) *)

Ids == DOMAIN users

\* Mutant: the select also returns the two sensitive columns.
PublicSelectAll ==
    {"id", "email", "name", "age", "password", "refreshToken"}

PublicSelect == {"id", "email", "name", "age"}

Project(row, keys) == [k \in keys |-> row[k]]

findUniqueByEmail(email) ==
    IF \E i \in Ids : users[i].email = email
    THEN users[CHOOSE i \in Ids : users[i].email = email]
    ELSE Null

findByEmail(email) == findUniqueByEmail(email)

findOne(id) ==
    IF id \in Ids THEN Project(users[id], PublicSelect) ELSE Null

findAll == {Project(users[i], PublicSelect) : i \in Ids}

NewRow(data) ==
    [id |-> nextId, email |-> data.email, name |-> data.name,
     password |-> data.password, age |-> data.age, refreshToken |-> Null]

createFails(data) == \E i \in Ids : users[i].email = data.email

created(data) == [i \in Ids \cup {nextId} |->
                    IF i = nextId THEN NewRow(data) ELSE users[i]]

\* Mutant: every update also clears the stored refresh token.
PatchClearsToken(row, data) ==
    [k \in DOMAIN row |->
        IF k \in DOMAIN data THEN data[k]
        ELSE IF k = "refreshToken" THEN Null ELSE row[k]]

Patch(row, data) ==
    [k \in DOMAIN row |-> IF k \in DOMAIN data THEN data[k] ELSE row[k]]

\* Mutant: the email column carries no unique index.
updateFailsMissingRowOnly(tbl, id, data) == id \notin DOMAIN tbl

updateFails(tbl, id, data) ==
    \/ id \notin DOMAIN tbl
    \/ /\ "email" \in DOMAIN data
       /\ \E j \in DOMAIN tbl : j # id /\ tbl[j].email = data.email

updated(tbl, id, data) == [tbl EXCEPT ![id] = Patch(@, data)]

removeFails(id) == id \notin Ids

removed(id) == [i \in Ids \ {id} |-> users[i]]

updateRefreshToken(tbl, userId, refreshToken) ==
    updated(tbl, userId, [refreshToken |-> refreshToken])

-----------------------------------------------------------------------------
(* AuthService *)

\* Mutant: the password is not compared.
validateUserNoPassword(email, password) == findByEmail(email)

validateUser(email, password) ==
    LET user == findByEmail(email)
    IN  IF user # Null /\ bcryptCompare(password, user.password)
        THEN user
        ELSE Null

Unauthorized(message) ==
    [error |-> "Unauthorized", message |-> message, users |-> users,
     nextId |-> nextId]

\* Mutant: the refresh token is signed and returned but not stored.
IssueWithoutStore(tbl, nid, user) ==
    LET payload == [email |-> user.email, sub |-> user.id]
    IN  [error |-> "none", users |-> tbl, nextId |-> nid,
         tokens |-> [access_token |-> jwtSign(payload, AccessTTL),
                     refresh_token |-> jwtSign(payload, RefreshTTL)],
         user |-> [id |-> user.id, email |-> user.email, name |-> user.name]]

Issue(tbl, nid, user) ==
    LET payload == [email |-> user.email, sub |-> user.id]
        access_token == jwtSign(payload, AccessTTL)
        refresh_token == jwtSign(payload, RefreshTTL)
    IN  IF updateFails(tbl, user.id, [refreshToken |-> refresh_token])
        THEN [error |-> "StoreError", message |-> "P2025", users |-> tbl,
              nextId |-> nid]
        ELSE [error |-> "none",
              users |-> updateRefreshToken(tbl, user.id, refresh_token),
              nextId |-> nid,
              tokens |-> [access_token |-> access_token,
                          refresh_token |-> refresh_token],
              user |-> [id |-> user.id, email |-> user.email,
                        name |-> user.name]]

loginWithCookies(loginDto) ==
    LET user == validateUser(loginDto.email, loginDto.password)
    IN  IF user = Null
        THEN Unauthorized("Invalid credentials")
        ELSE Issue(users, nextId, user)

registerWithCookies(registerDto, salt) ==
    LET existingUser == findByEmail(registerDto.email)
        hashedPassword == bcryptHash(registerDto.password, salt)
        data == [registerDto EXCEPT !.password = hashedPassword]
    IN  IF existingUser # Null
        THEN Unauthorized("User already exists")
        ELSE IF createFails(data)
        THEN [error |-> "StoreError", message |-> "P2002", users |-> users,
              nextId |-> nextId]
        ELSE Issue(created(data), nextId + 1,
                   Project(NewRow(data), PublicSelect))

\* Mutant: a mismatch revokes the stored token.
refreshTokensRevokeOnMismatch(refreshToken) ==
    IF ~jwtValid(refreshToken, IssuerSecret)
    THEN Unauthorized("Invalid refresh token")
    ELSE LET payload == jwtPayload(refreshToken)
             user == findByEmail(payload.email)
         IN  IF user = Null
             THEN Unauthorized("Invalid refresh token")
             ELSE IF user.refreshToken # refreshToken
             THEN [error |-> "Unauthorized",
                   message |-> "Invalid refresh token",
                   users |-> updateRefreshToken(users, user.id, Null),
                   nextId |-> nextId]
             ELSE LET r == Issue(users, nextId, user)
                  IN  IF r.error # "none"
                      THEN Unauthorized("Invalid refresh token")
                      ELSE r

\* Mutant: the presented token is not compared with the stored one.
refreshTokensNoStoredCheck(refreshToken) ==
    IF ~jwtValid(refreshToken, IssuerSecret)
    THEN Unauthorized("Invalid refresh token")
    ELSE LET payload == jwtPayload(refreshToken)
             user == findByEmail(payload.email)
         IN  IF user = Null
             THEN Unauthorized("Invalid refresh token")
             ELSE LET r == Issue(users, nextId, user)
                  IN  IF r.error # "none"
                      THEN Unauthorized("Invalid refresh token")
                      ELSE r

\* Mutant: only the presence of a stored token is checked.
refreshTokensAnyStored(refreshToken) ==
    IF ~jwtValid(refreshToken, IssuerSecret)
    THEN Unauthorized("Invalid refresh token")
    ELSE LET payload == jwtPayload(refreshToken)
             user == findByEmail(payload.email)
         IN  IF user = Null \/ user.refreshToken = Null
             THEN Unauthorized("Invalid refresh token")
             ELSE LET r == Issue(users, nextId, user)
                  IN  IF r.error # "none"
                      THEN Unauthorized("Invalid refresh token")
                      ELSE r

refreshTokensWithCookies(refreshToken) ==
    IF ~jwtValid(refreshToken, IssuerSecret)
    THEN Unauthorized("Invalid refresh token")
    ELSE LET payload == jwtPayload(refreshToken)
             user == findByEmail(payload.email)
         IN  IF user = Null \/ user.refreshToken # refreshToken
             THEN Unauthorized("Invalid refresh token")
             ELSE LET r == Issue(users, nextId, user)
                  IN  IF r.error # "none"
                      THEN Unauthorized("Invalid refresh token")
                      ELSE r

\* Mutant: a user with no stored token cannot log out.
logoutIfLoggedIn(userId) ==
    IF userId \notin Ids \/ users[userId].refreshToken = Null
    THEN Unauthorized("Not logged in")
    ELSE [error |-> "none", users |-> updateRefreshToken(users, userId, Null),
          nextId |-> nextId]

logout(userId) ==
    IF updateFails(users, userId, [refreshToken |-> Null])
    THEN [error |-> "StoreError", message |-> "P2025", users |-> users,
          nextId |-> nextId]
    ELSE [error |-> "none", users |-> updateRefreshToken(users, userId, Null),
          nextId |-> nextId]

-----------------------------------------------------------------------------
(* JwtStrategy: the access control gate *)

Truthy(v) == v # Null /\ v # Str("")

extractJWTFromCookie(r) ==
    IF Truthy(r.cookies.access_token) THEN r.cookies.access_token ELSE Null

fromAuthHeaderAsBearerToken(r) == r.bearer

\* Mutant: the extractors are listed in the other order.
jwtFromRequestHeaderFirst(r) ==
    IF Truthy(fromAuthHeaderAsBearerToken(r))
    THEN fromAuthHeaderAsBearerToken(r)
    ELSE extractJWTFromCookie(r)

jwtFromRequest(r) ==
    IF Truthy(extractJWTFromCookie(r))
    THEN extractJWTFromCookie(r)
    ELSE fromAuthHeaderAsBearerToken(r)

\* Mutant: a user with no stored refresh token is turned away.
validateIfLoggedIn(payload) ==
    IF payload.sub \notin Ids \/ users[payload.sub].refreshToken = Null
    THEN Null
    ELSE [userId |-> payload.sub, email |-> payload.email]

\* Mutant: the identity is read from the row that was looked up.
validateFromStore(payload) ==
    LET user == findOne(payload.sub)
    IN  IF user = Null
        THEN Null
        ELSE [userId |-> user.id, email |-> user.email]

\* Mutant: the user row is not looked up.
validateNoLookup(payload) ==
    [userId |-> payload.sub, email |-> payload.email]

validate(payload) ==
    LET user == findOne(payload.sub)
    IN  IF user = Null
        THEN Null
        ELSE [userId |-> payload.sub, email |-> payload.email]

\* Mutant: the signature is verified against no particular key.
JwtStrategyAnyKey(r) ==
    LET token == jwtFromRequest(r)
    IN  IF ~Truthy(token) THEN Null
        ELSE IF ~(token.t = "jwt" /\ now < token.exp) THEN Null
        ELSE validate(jwtPayload(token))

\* Mutant: ignoreExpiration is true.
JwtStrategyIgnoreExpiration(r) ==
    LET token == jwtFromRequest(r)
    IN  IF ~Truthy(token) THEN Null
        ELSE IF ~(token.t = "jwt" /\ token.key = JwtSecret) THEN Null
        ELSE validate(jwtPayload(token))

JwtStrategy(r) ==
    LET token == jwtFromRequest(r)
    IN  IF ~Truthy(token) THEN Null
        ELSE IF ~jwtValid(token, JwtSecret) THEN Null
        ELSE validate(jwtPayload(token))

JwtAuthGuard(r) == JwtStrategy(r)

LocalAuthGuard(loginDto) ==
    validateUser(loginDto.email, loginDto.password) # Null


-----------------------------------------------------------------------------
(* What clients can send *)

RegisterDtos == [email : Emails, password : {"p1"}, name : Names, age : Ages]

LoginDtos == [email : Emails, password : Passwords]

Forged(token) == [token EXCEPT !.key = OtherSecret]

TokenInputs == issued \cup {Forged(tk) : tk \in issued} \cup {Null, Str("garbage")}

Request(cookie, bearer) == [cookies |-> [access_token |-> cookie], bearer |-> bearer]

IsRefreshToken(tk) == tk.exp - tk.iat = RefreshTTL

AccessTokens == {tk \in issued : ~IsRefreshToken(tk)}

RefreshTokens == {tk \in issued : IsRefreshToken(tk)}

AnyCredentials ==
    {Request(c, Null) : c \in TokenInputs}
    \cup {Request(Null, b) : b \in issued}
    \cup {Request(c, b) : c \in AccessTokens \cup {Str("garbage"), Str("")},
                          b \in AccessTokens \cup {Str("garbage")}}

Credentials == {Request(c, Null) : c \in AccessTokens \cup {Null}}

PathIds == 1 .. MaxUsers

UpdateDtos ==
    {[name |-> "B", age |-> 30], [password |-> Str("p2")]}
    \cup {[email |-> e] : e \in Emails}
    \cup {[refreshToken |-> tk] : tk \in issued}

-----------------------------------------------------------------------------
(* AuthController: cookies and responses *)

\* Mutant: only the access_token cookie is written.
setCookiesAccessOnly(access_token, refresh_token) ==
    {[name |-> "access_token", value |-> access_token, httpOnly |-> TRUE,
      secure |-> (nodeEnv = "production"), sameSite |-> "strict",
      maxAge |-> AccessCookieMaxAge]}

\* Mutant: secure is hard-coded.
setCookiesAlwaysSecure(access_token, refresh_token) ==
    {[name |-> "access_token", value |-> access_token, httpOnly |-> TRUE,
      secure |-> TRUE, sameSite |-> "strict",
      maxAge |-> AccessCookieMaxAge],
     [name |-> "refresh_token", value |-> refresh_token, httpOnly |-> TRUE,
      secure |-> TRUE, sameSite |-> "strict",
      maxAge |-> RefreshCookieMaxAge]}

setCookies(access_token, refresh_token) ==
    {[name |-> "access_token", value |-> access_token, httpOnly |-> TRUE,
      secure |-> (nodeEnv = "production"), sameSite |-> "strict",
      maxAge |-> AccessCookieMaxAge],
     [name |-> "refresh_token", value |-> refresh_token, httpOnly |-> TRUE,
      secure |-> (nodeEnv = "production"), sameSite |-> "strict",
      maxAge |-> RefreshCookieMaxAge]}

\* Mutant: the refresh_token cookie is left in place.
clearCookiesAccessOnly ==
    {[name |-> "access_token", value |-> Str(""), httpOnly |-> TRUE,
      secure |-> (nodeEnv = "production"), sameSite |-> "strict",
      expires |-> 0]}

clearCookies ==
    {[name |-> "access_token", value |-> Str(""), httpOnly |-> TRUE,
      secure |-> (nodeEnv = "production"), sameSite |-> "strict",
      expires |-> 0],
     [name |-> "refresh_token", value |-> Str(""), httpOnly |-> TRUE,
      secure |-> (nodeEnv = "production"), sameSite |-> "strict",
      expires |-> 0]}

Ok(body, cookies, user) ==
    [status |-> "OK", body |-> body, cookies |-> cookies, user |-> user]

NoRequest == [op |-> "none"]

NoResponse == [status |-> "none"]

Failed(status, message) ==
    [status |-> status, body |-> [message |-> message], cookies |-> {},
     user |-> Null]

ExceptionFilter(r) ==
    IF r.error = "Unauthorized"
    THEN Failed("Unauthorized", r.message)
    ELSE Failed("InternalServerError", "Internal server error")

TokensOf(r) == {r.tokens.access_token, r.tokens.refresh_token}

WithinBounds(r) ==
    r.error = "none" =>
        /\ DOMAIN r.users \subseteq 1 .. MaxUsers
        /\ "tokens" \in DOMAIN r =>
              Cardinality(issued \cup TokensOf(r)) <= 2 * MaxIssued

Handed(r) ==
    IF r.error = "none" /\ "tokens" \in DOMAIN r
    THEN issued \cup TokensOf(r)
    ELSE issued

Callers == 1 .. MaxCallers

Idle == [pc |-> "idle"]

NoCalls == [c \in Callers |-> Idle]

-----------------------------------------------------------------------------
(* Requests *)

Init ==
    /\ users = << >>
    /\ nextId = 1
    /\ now = 0
    /\ ticks = 0
    /\ nodeEnv = "development"
    /\ issued = {}
    /\ updates = 0
    /\ req = NoRequest
    /\ resp = NoResponse
    /\ calls = NoCalls

Respond ==
    /\ req # NoRequest
    /\ req' = NoRequest
    /\ resp' = NoResponse
    /\ UNCHANGED <<calls, users, nextId, now, ticks, nodeEnv, issued, updates>>

Tick(d) ==
    /\ req = NoRequest
    /\ ticks < MaxTicks
    /\ now' = now + d
    /\ ticks' = ticks + 1
    /\ UNCHANGED <<calls, users, nextId, nodeEnv, issued, req, resp, updates>>

Register(registerDto, salt) ==
    LET r == registerWithCookies(registerDto, salt)
    IN  /\ req = NoRequest
        /\ WithinBounds(r)
        /\ users' = r.users
        /\ nextId' = r.nextId
        /\ issued' = Handed(r)
        /\ req' = [op |-> "register", dto |-> registerDto]
        /\ resp' = IF r.error = "none"
                   THEN Ok([user |-> r.user,
                            message |-> "Registration successful"],
                           setCookies(r.tokens.access_token,
                                      r.tokens.refresh_token), Null)
                   ELSE ExceptionFilter(r)
        /\ UNCHANGED <<calls, now, ticks, nodeEnv, updates>>

Login(loginDto) ==
    LET r == IF LocalAuthGuard(loginDto)
             THEN loginWithCookies(loginDto)
             ELSE Unauthorized("Unauthorized")
    IN  /\ req = NoRequest
        /\ WithinBounds(r)
        /\ users' = r.users
        /\ issued' = Handed(r)
        /\ req' = [op |-> "login", dto |-> loginDto]
        /\ resp' = IF r.error = "none"
                   THEN Ok([user |-> r.user, message |-> "Login successful"],
                           setCookies(r.tokens.access_token,
                                      r.tokens.refresh_token), Null)
                   ELSE ExceptionFilter(r)
        /\ UNCHANGED <<calls, nextId, now, ticks, nodeEnv, updates>>

Refresh(refreshToken) ==
    LET r == IF ~Truthy(refreshToken)
             THEN Unauthorized("Refresh token not found")
             ELSE refreshTokensWithCookies(refreshToken)
    IN  /\ req = NoRequest
        /\ WithinBounds(r)
        /\ users' = r.users
        /\ issued' = Handed(r)
        /\ req' = [op |-> "refresh", token |-> refreshToken]
        /\ resp' = IF r.error = "none"
                   THEN Ok([message |-> "Tokens refreshed successfully"],
                           setCookies(r.tokens.access_token,
                                      r.tokens.refresh_token), Null)
                   ELSE ExceptionFilter(r)
        /\ UNCHANGED <<calls, nextId, now, ticks, nodeEnv, updates>>

Logout(request) ==
    LET user == JwtAuthGuard(request)
        r == IF user = Null THEN Unauthorized("Unauthorized")
             ELSE logout(user.userId)
    IN  /\ req = NoRequest
        /\ users' = r.users
        /\ req' = [op |-> "logout", request |-> request]
        /\ resp' = IF r.error = "none"
                   THEN Ok([message |-> "Logged out successfully"],
                           clearCookies, user)
                   ELSE [ExceptionFilter(r) EXCEPT !.user = user]
        /\ UNCHANGED <<calls, nextId, now, ticks, nodeEnv, issued, updates>>


getProfile(request) ==
    LET user == JwtAuthGuard(request)
    IN  /\ req = NoRequest
        /\ req' = [op |-> "profile", request |-> request]
        /\ resp' = IF user = Null
                   THEN Failed("Unauthorized", "Unauthorized")
                   ELSE Ok(user, {}, user)
        /\ UNCHANGED <<calls, users, nextId, now, ticks, nodeEnv, issued, updates>>

-----------------------------------------------------------------------------
(* UserController *)

FindAll(request) ==
    LET user == JwtAuthGuard(request)
    IN  /\ req = NoRequest
        /\ req' = [op |-> "list", request |-> request]
        /\ resp' = IF user = Null
                   THEN Failed("Unauthorized", "Unauthorized")
                   ELSE Ok(findAll, {}, user)
        /\ UNCHANGED <<calls, users, nextId, now, ticks, nodeEnv, issued, updates>>

FindOne(request, id) ==
    LET user == JwtAuthGuard(request)
    IN  /\ req = NoRequest
        /\ req' = [op |-> "get", request |-> request, id |-> id]
        /\ resp' = IF user = Null
                   THEN Failed("Unauthorized", "Unauthorized")
                   ELSE Ok(findOne(id), {}, user)
        /\ UNCHANGED <<calls, users, nextId, now, ticks, nodeEnv, issued, updates>>

\* Mutant: a store error is swallowed and null returned.
updateSwallowsError(id, data) ==
    IF updateFails(users, id, data)
    THEN [error |-> "none", users |-> users, result |-> Null]
    ELSE [error |-> "none", users |-> updated(users, id, data),
          result |-> Project(updated(users, id, data)[id], PublicSelect)]

update(id, data) ==
    IF updateFails(users, id, data)
    THEN [error |-> "StoreError", message |-> "P2002/P2025", users |-> users]
    ELSE [error |-> "none", users |-> updated(users, id, data),
          result |-> Project(updated(users, id, data)[id], PublicSelect)]

\* Mutant: deleteMany semantics, a missing row is not an error.
removeIfExists(id) == [error |-> "none", users |-> removed(id)]

remove(id) ==
    IF removeFails(id)
    THEN [error |-> "StoreError", message |-> "P2025", users |-> users]
    ELSE [error |-> "none", users |-> removed(id)]

Update(request, id, updateUserDto) ==
    LET user == JwtAuthGuard(request)
        r == IF user = Null THEN Unauthorized("Unauthorized")
             ELSE update(id, updateUserDto)
    IN  /\ req = NoRequest
        /\ r.error = "none" => updates < MaxUpdates
        /\ users' = r.users
        /\ req' = [op |-> "update", request |-> request, id |-> id,
                   dto |-> updateUserDto]
        /\ resp' = IF r.error = "none"
                   THEN Ok(r.result, {}, user)
                   ELSE [ExceptionFilter(r) EXCEPT !.user = user]
        /\ updates' = IF r.error = "none" THEN updates + 1 ELSE updates
        /\ UNCHANGED <<calls, nextId, now, ticks, nodeEnv, issued>>

\* Mutant: a caller may delete only its own row.
RemoveOwnOnly(request, id) ==
    LET user == JwtAuthGuard(request)
        r == IF user = Null THEN Unauthorized("Unauthorized")
             ELSE IF user.userId # id THEN Unauthorized("Forbidden")
             ELSE remove(id)
    IN  /\ req = NoRequest
        /\ users' = r.users
        /\ req' = [op |-> "remove", request |-> request, id |-> id]
        /\ resp' = IF r.error = "none"
                   THEN Ok(Null, {}, user)
                   ELSE [ExceptionFilter(r) EXCEPT !.user = user]
        /\ UNCHANGED <<calls, nextId, now, ticks, nodeEnv, issued, updates>>

Remove(request, id) ==
    LET user == JwtAuthGuard(request)
        r == IF user = Null THEN Unauthorized("Unauthorized")
             ELSE remove(id)
    IN  /\ req = NoRequest
        /\ users' = r.users
        /\ req' = [op |-> "remove", request |-> request, id |-> id]
        /\ resp' = IF r.error = "none"
                   THEN Ok(Null, {}, user)
                   ELSE [ExceptionFilter(r) EXCEPT !.user = user]
        /\ UNCHANGED <<calls, nextId, now, ticks, nodeEnv, issued, updates>>

-----------------------------------------------------------------------------
(* HealthController *)

getHealth ==
    [status |-> "OK", timestamp |-> now, uptime |-> now, version |-> "1.0.0"]

Health ==
    /\ req = NoRequest
    /\ req' = [op |-> "health"]
    /\ resp' = Ok(getHealth, {}, Null)
    /\ UNCHANGED <<calls, users, nextId, now, ticks, nodeEnv, issued, updates>>

-----------------------------------------------------------------------------

Next ==
    \/ Respond
    \/ \E d \in TickSteps : Tick(d)
    \/ \E dto \in RegisterDtos, salt \in Salts : Register(dto, salt)
    \/ \E dto \in LoginDtos : Login(dto)
    \/ \E tk \in TokenInputs : Refresh(tk)
    \/ \E r \in Credentials : Logout(r)
    \/ \E r \in AnyCredentials : getProfile(r)
    \/ \E r \in Credentials : FindAll(r)
    \/ \E r \in Credentials, id \in PathIds : FindOne(r, id)
    \/ \E r \in Credentials, id \in PathIds, dto \in UpdateDtos : Update(r, id, dto)
    \/ \E r \in Credentials, id \in PathIds : Remove(r, id)
    \/ Health

Spec == Init /\ [][Next]_vars

\* The same service started under either NODE_ENV.
InitEnv ==
    /\ users = << >>
    /\ nextId = 1
    /\ now = 0
    /\ ticks = 0
    /\ nodeEnv \in NodeEnvs
    /\ issued = {}
    /\ updates = 0
    /\ req = NoRequest
    /\ resp = NoResponse
    /\ calls = NoCalls

SpecEnv == InitEnv /\ [][Next]_vars

-----------------------------------------------------------------------------
(* The same service calls, one step per store round trip.                  *)
(*                                                                         *)
(* Every `await this.userService...` suspends the call and lets other      *)
(* requests run, and a store round trip can fail (connection lost); `up`   *)
(* says whether the round trip of the step reaches the store.  A suspended *)
(* call keeps its local variables (arg, user, the tokens it signed); a     *)
(* finished one keeps what was raised inside the service (StoreError: the  *)
(* store was not reached; P2002, P2025: the Prisma error of a unique       *)
(* constraint and of a missing row) and the status its caller saw.  Each   *)
(* caller makes one call.                                                  *)

Suspended(op, pc, arg, user, tokens) ==
    [op |-> op, pc |-> pc, arg |-> arg, user |-> user, tokens |-> tokens]

\* Both tokens are signed when the preceding store call returns, before
\* updateRefreshToken is awaited.
SignPair(user) ==
    LET payload == [email |-> user.email, sub |-> user.id]
    IN  [access_token |-> jwtSign(payload, AccessTTL),
         refresh_token |-> jwtSign(payload, RefreshTTL)]

\* The status the caller sees: refreshTokensWithCookies catches whatever
\* was thrown and rethrows UnauthorizedException; elsewhere an
\* HttpException keeps its status and anything else is a 500.
Surfaced(op, raised) ==
    IF raised = "none" THEN "OK"
    ELSE IF op = "refresh" THEN "Unauthorized"
    ELSE IF raised = "UnauthorizedException" THEN "Unauthorized"
    ELSE "InternalServerError"

Finished(op, arg, user, raised, tokens) ==
    [op |-> op, pc |-> "done", arg |-> arg, user |-> user, raised |-> raised,
     status |-> Surfaced(op, raised), tokens |-> tokens]

BeginRegister(c, registerDto, up) ==
    /\ calls[c] = Idle
    /\ calls' = [calls EXCEPT ![c] =
          IF ~up
          THEN Finished("register", registerDto, Null, "StoreError", Null)
          ELSE IF findByEmail(registerDto.email) # Null
          THEN Finished("register", registerDto, Null,
                        "UnauthorizedException", Null)
          ELSE Suspended("register", "create", registerDto, Null, Null)]
    /\ UNCHANGED <<users, nextId, now, ticks, nodeEnv, issued, updates, req, resp>>

\* Mutant: create is an upsert; a row that holds the email is returned
\* instead of the unique constraint failing.
CreateUserUpsert(c, salt, up) ==
    LET call == calls[c]
        data == [call.arg EXCEPT !.password = bcryptHash(call.arg.password, salt)]
        existing == findByEmail(data.email)
    IN  /\ call.pc = "create"
        /\ IF ~up
           THEN /\ calls' = [calls EXCEPT ![c] =
                      Finished("register", call.arg, Null, "StoreError", Null)]
                /\ UNCHANGED <<users, nextId>>
           ELSE IF createFails(data)
           THEN /\ calls' = [calls EXCEPT ![c] =
                      Suspended("register", "store", call.arg,
                                Project(existing, PublicSelect),
                                SignPair(existing))]
                /\ UNCHANGED <<users, nextId>>
           ELSE /\ nextId <= MaxUsers
                /\ users' = created(data)
                /\ nextId' = nextId + 1
                /\ calls' = [calls EXCEPT ![c] =
                      Suspended("register", "store", call.arg,
                                Project(NewRow(data), PublicSelect),
                                SignPair(NewRow(data)))]
        /\ UNCHANGED <<now, ticks, nodeEnv, issued, updates, req, resp>>

CreateUser(c, salt, up) ==
    LET call == calls[c]
        data == [call.arg EXCEPT !.password = bcryptHash(call.arg.password, salt)]
    IN  /\ call.pc = "create"
        /\ IF ~up \/ createFails(data)
           THEN /\ calls' = [calls EXCEPT ![c] =
                      Finished("register", call.arg, Null,
                               IF ~up THEN "StoreError" ELSE "P2002", Null)]
                /\ UNCHANGED <<users, nextId>>
           ELSE /\ nextId <= MaxUsers
                /\ users' = created(data)
                /\ nextId' = nextId + 1
                /\ calls' = [calls EXCEPT ![c] =
                      Suspended("register", "store", call.arg,
                                Project(NewRow(data), PublicSelect),
                                SignPair(NewRow(data)))]
        /\ UNCHANGED <<now, ticks, nodeEnv, issued, updates, req, resp>>

BeginLogin(c, loginDto, up) ==
    LET user == validateUser(loginDto.email, loginDto.password)
    IN  /\ calls[c] = Idle
        /\ calls' = [calls EXCEPT ![c] =
              IF ~up
              THEN Finished("login", loginDto, Null, "StoreError", Null)
              ELSE IF user = Null
              THEN Finished("login", loginDto, Null,
                            "UnauthorizedException", Null)
              ELSE Suspended("login", "store", loginDto, user, SignPair(user))]
        /\ UNCHANGED <<users, nextId, now, ticks, nodeEnv, issued, updates, req, resp>>

BeginRefresh(c, refreshToken, up) ==
    LET user == findByEmail(jwtPayload(refreshToken).email)
    IN  /\ calls[c] = Idle
        /\ calls' = [calls EXCEPT ![c] =
              IF ~Truthy(refreshToken)
              THEN Finished("refresh", refreshToken, Null,
                            "UnauthorizedException", Null)
              ELSE IF ~jwtValid(refreshToken, IssuerSecret)
              THEN Finished("refresh", refreshToken, Null,
                            "JsonWebTokenError", Null)
              ELSE IF ~up
              THEN Finished("refresh", refreshToken, Null, "StoreError", Null)
              ELSE IF user = Null \/ user.refreshToken # refreshToken
              THEN Finished("refresh", refreshToken, Null,
                            "UnauthorizedException", Null)
              ELSE Suspended("refresh", "store", refreshToken, user,
                             SignPair(user))]
        /\ UNCHANGED <<users, nextId, now, ticks, nodeEnv, issued, updates, req, resp>>

StoreRefreshToken(c, up) ==
    LET call == calls[c]
        refresh_token == call.tokens.refresh_token
    IN  /\ call.pc = "store"
        /\ IF ~up \/ updateFails(users, call.user.id,
                                 [refreshToken |-> refresh_token])
           THEN /\ calls' = [calls EXCEPT ![c] =
                      Finished(call.op, call.arg, call.user,
                               IF ~up THEN "StoreError" ELSE "P2025", Null)]
                /\ UNCHANGED <<users, issued>>
           ELSE /\ users' = updateRefreshToken(users, call.user.id, refresh_token)
                /\ issued' = issued \cup {call.tokens.access_token, refresh_token}
                /\ calls' = [calls EXCEPT ![c] =
                      Finished(call.op, call.arg, call.user, "none", call.tokens)]
        /\ UNCHANGED <<nextId, now, ticks, nodeEnv, updates, req, resp>>

BeginLogout(c, request, up) ==
    LET user == JwtAuthGuard(request)
    IN  /\ calls[c] = Idle
        /\ calls' = [calls EXCEPT ![c] =
              IF ~Truthy(jwtFromRequest(request))
                 \/ ~jwtValid(jwtFromRequest(request), JwtSecret)
              THEN Finished("logout", request, Null,
                            "UnauthorizedException", Null)
              ELSE IF ~up
              THEN Finished("logout", request, Null, "StoreError", Null)
              ELSE IF user = Null
              THEN Finished("logout", request, Null,
                            "UnauthorizedException", Null)
              ELSE Suspended("logout", "clear", request, user, Null)]
        /\ UNCHANGED <<users, nextId, now, ticks, nodeEnv, issued, updates, req, resp>>

ClearToken(c, up) ==
    LET call == calls[c]
    IN  /\ call.pc = "clear"
        /\ IF ~up \/ logout(call.user.userId).error # "none"
           THEN /\ calls' = [calls EXCEPT ![c] =
                      Finished("logout", call.arg, call.user,
                               IF ~up THEN "StoreError" ELSE "P2025", Null)]
                /\ UNCHANGED users
           ELSE /\ users' = logout(call.user.userId).users
                /\ calls' = [calls EXCEPT ![c] =
                      Finished("logout", call.arg, call.user, "none", Null)]
        /\ UNCHANGED <<nextId, now, ticks, nodeEnv, issued, updates, req, resp>>

NextAsync ==
    \/ Respond
    \/ \E d \in TickSteps : Tick(d)
    \/ \E r \in Credentials, id \in PathIds : Remove(r, id)
    \/ \E c \in Callers, dto \in RegisterDtos, up \in BOOLEAN :
          BeginRegister(c, dto, up)
    \/ \E c \in Callers, salt \in Salts, up \in BOOLEAN : CreateUser(c, salt, up)
    \/ \E c \in Callers, dto \in LoginDtos, up \in BOOLEAN : BeginLogin(c, dto, up)
    \/ \E c \in Callers, tk \in TokenInputs, up \in BOOLEAN :
          BeginRefresh(c, tk, up)
    \/ \E c \in Callers, up \in BOOLEAN : StoreRefreshToken(c, up)
    \/ \E c \in Callers, r \in Credentials, up \in BOOLEAN :
          BeginLogout(c, r, up)
    \/ \E c \in Callers, up \in BOOLEAN : ClearToken(c, up)

\* One second after a@x.com registered: its row holds the refresh token of
\* that registration and the client holds both tokens.
FirstUser ==
    [id |-> 1, email |-> "a@x.com", name |-> "A",
     password |-> bcryptHash("p1", "s1"), age |-> NullAge,
     refreshToken |-> [t |-> "jwt", key |-> IssuerSecret, sub |-> 1,
                       email |-> "a@x.com", iat |-> 0, exp |-> RefreshTTL]]

InitAsync ==
    /\ users = <<FirstUser>>
    /\ nextId = 2
    /\ now = 1
    /\ ticks = 0
    /\ nodeEnv = "development"
    /\ issued = {FirstUser.refreshToken,
                 [FirstUser.refreshToken EXCEPT !.exp = AccessTTL]}
    /\ updates = 0
    /\ req = NoRequest
    /\ resp = NoResponse
    /\ calls = NoCalls

SpecAsync == InitAsync /\ [][NextAsync]_vars

\* a@x.com registered at time 0 and then had its email changed to b@x.com
\* by PUT /users/1: the row still holds the refresh token of the
\* registration, whose claim carries the old email.
InitRenamed ==
    /\ users = <<[FirstUser EXCEPT !.email = "b@x.com"]>>
    /\ nextId = 2
    /\ now = 1
    /\ ticks = 0
    /\ nodeEnv = "development"
    /\ issued = {FirstUser.refreshToken,
                 [FirstUser.refreshToken EXCEPT !.exp = AccessTTL]}
    /\ updates = 0
    /\ req = NoRequest
    /\ resp = NoResponse
    /\ calls = NoCalls

SpecRenamed == InitRenamed /\ [][Next]_vars

TypeOK ==
    /\ nextId \in 1 .. (MaxUsers + 1)
    /\ Ids \subseteq 1 .. MaxUsers
    /\ ticks \in 0 .. MaxTicks

-----------------------------------------------------------------------------
(* Vocabulary of the properties *)

Succeeded(op) == req.op = op /\ resp.status = "OK"

Rejected(op) == req.op = op /\ resp.status = "Unauthorized"

\* Refresh would hand out tokens for tk in the current state.
Accepts(tk) == Truthy(tk) /\ refreshTokensWithCookies(tk).error = "none"

\* The row Refresh resolves tk to: the one holding the email of its claim.
RowOf(tk) == findByEmail(tk.email)

RefreshCookie(r) == (CHOOSE c \in r.cookies : c.name = "refresh_token").value

AccessCookie(r) == (CHOOSE c \in r.cookies : c.name = "access_token").value

Sensitive == {"password", "refreshToken"}

-----------------------------------------------------------------------------
(* C1: a Refresh that presents a validly signed, unexpired token which is  *)
(* not the refreshToken stored on the row of the user it names (the stored *)
(* value is another token or null, or there is no such row) is answered    *)
(* Unauthorized, sets no cookie, hands out no token and writes nothing.    *)

C1_MismatchCase(tk) ==
    /\ jwtValid(tk, JwtSecret)
    /\ RowOf(tk) = Null \/ RowOf(tk).refreshToken # tk

C1_RefreshMismatchRejected ==
    [][\A tk \in TokenInputs :
          (Refresh(tk) /\ C1_MismatchCase(tk)) =>
              /\ resp'.status = "Unauthorized"
              /\ resp'.cookies = {}
              /\ issued' = issued
              /\ users' = users]_vars

C1_Witness ==
    /\ Rejected("refresh")
    /\ C1_MismatchCase(req.token)
    /\ IsRefreshToken(req.token)
    /\ req.token \in issued
    /\ RowOf(req.token) # Null
    /\ RowOf(req.token).refreshToken # Null

-----------------------------------------------------------------------------
(* C2: refresh tokens are single-use: once a Refresh presenting T has      *)
(* succeeded, a Refresh presenting the same T again is rejected.           *)

C2_UsedTokenRejected ==
    Succeeded("refresh") => ~Accepts(req.token)


-----------------------------------------------------------------------------
(* C3: in every state and for every user at most one token value is live,  *)
(* that is, would be accepted by Refresh for that user, and a live token   *)
(* is the value held in the single refreshToken slot of that user's row.   *)

LiveTokens(id) ==
    {tk \in TokenInputs : Accepts(tk) /\ RowOf(tk).id = id}

C3_AtMostOneLiveToken ==
    \A id \in Ids :
        /\ Cardinality(LiveTokens(id)) <= 1
        /\ \A tk \in LiveTokens(id) : users[id].refreshToken = tk

C3_Witness ==
    \E id \in Ids :
        /\ Cardinality(LiveTokens(id)) = 1
        /\ \E tk \in RefreshTokens :
              /\ tk \notin LiveTokens(id)
              /\ jwtValid(tk, JwtSecret)
              /\ tk.sub = id
              /\ RowOf(tk) # Null
              /\ RowOf(tk).id = id

-----------------------------------------------------------------------------
(* C4: a successful Login overwrites the stored refresh token, so every    *)
(* refresh token issued to that user before the Login is rejected by a     *)
(* Refresh that follows it.                                                *)

C4_LoginInvalidatesOlderTokens ==
    [][(req'.op = "login" /\ resp'.status = "OK") =>
          \A tk \in RefreshTokens :
              tk.sub = resp'.body.user.id => ~Accepts(tk)']_vars

-----------------------------------------------------------------------------
(* C5: after a Logout the user's stored refreshToken is null, the token    *)
(* that was live before the Logout is rejected, and the slot stays null    *)
(* (so that token stays rejected) until a Login stores a token again.      *)

C5_LogoutClearsSlot ==
    [][(req'.op = "logout" /\ resp'.status = "OK") =>
          /\ users'[resp'.user.userId].refreshToken = Null
          /\ \A tk \in LiveTokens(resp'.user.userId) : ~Accepts(tk)']_vars

C5_NullUntilLogin ==
    [][\A id \in Ids \cap DOMAIN users' :
          (users[id].refreshToken = Null /\ users'[id].refreshToken # Null)
              => req'.op = "login"]_vars

C5_LogoutInvalidatesUntilLogin ==
    C5_LogoutClearsSlot /\ C5_NullUntilLogin


-----------------------------------------------------------------------------
(* C6: a Register whose email is already in the table fails with Conflict, *)
(* creates no row and leaves every existing row unchanged.                 *)

C6_DuplicateRegisterConflict ==
    [][\A dto \in RegisterDtos, salt \in Salts :
          (Register(dto, salt) /\ findByEmail(dto.email) # Null) =>
              /\ resp'.status = "Conflict"
              /\ users' = users
              /\ nextId' = nextId]_vars

-----------------------------------------------------------------------------
(* C7: Login succeeds exactly when a row with the given email exists and   *)
(* the given password verifies against the hash stored on it; otherwise it *)
(* is answered Unauthorized.  On success both tokens it hands out pass the *)
(* gate's verification and carry the claim {sub: row id, email}.           *)

Verifies(plain, stored) == \E salt \in Salts : stored = bcryptHash(plain, salt)

C7_CredentialsOk(dto) ==
    /\ findByEmail(dto.email) # Null
    /\ Verifies(dto.password, findByEmail(dto.email).password)

C7_LoginIffCredentials ==
    req.op = "login" =>
        /\ resp.status = "OK" <=> C7_CredentialsOk(req.dto)
        /\ resp.status # "OK" => resp.status = "Unauthorized" /\ resp.cookies = {}
        /\ resp.status = "OK" =>
              /\ {c.name : c \in resp.cookies} = {"access_token", "refresh_token"}
              /\ \A c \in resp.cookies :
                    /\ jwtValid(c.value, JwtSecret)
                    /\ jwtPayload(c.value) =
                          [email |-> req.dto.email,
                           sub |-> findByEmail(req.dto.email).id]

C7_Witness ==
    /\ Succeeded("login")
    /\ \E i \in Ids : users[i].email # req.dto.email

-----------------------------------------------------------------------------
(* C8: in every state the password column of every row holds a one-way     *)
(* hash, never a plaintext a client supplied.                              *)

C8_PasswordAlwaysHashed ==
    \A id \in Ids : users[id].password.t = "bcrypt"

-----------------------------------------------------------------------------
(* C9: no response body carries a password or refreshToken key: not the    *)
(* results of list, get and update, nor the user object of Register and    *)
(* Login, whatever the state of the rows.                                  *)

Keys(v) == IF v = Null THEN {} ELSE DOMAIN v

C9_NoSensitiveKeys ==
    /\ (Succeeded("get") \/ Succeeded("update")) =>
          Keys(resp.body) \cap Sensitive = {}
    /\ Succeeded("list") =>
          \A u \in resp.body : Keys(u) \cap Sensitive = {}
    /\ (Succeeded("register") \/ Succeeded("login")) =>
          /\ DOMAIN resp.body \cap Sensitive = {}
          /\ DOMAIN resp.body.user \cap Sensitive = {}
    /\ (Succeeded("refresh") \/ Succeeded("logout") \/ Succeeded("profile")) =>
          Keys(resp.body) \cap Sensitive = {}

C9_Witness ==
    /\ Succeeded("list")
    /\ \E u \in resp.body : users[u.id].refreshToken # Null
    /\ \E u \in resp.body : users[u.id].refreshToken = Null
    /\ \E u \in resp.body : users[u.id].password.t = "str"


-----------------------------------------------------------------------------
(* C10: the gate accepts an unexpired access token that the service issued *)
(* to a user whose row exists and attaches {userId: sub, email} of its     *)
(* claim; a request with no token, with a token signed with another secret *)
(* or with a token past its expiry is answered Unauthorized with no        *)
(* identity attached and before the handler touches the table.             *)

GatedOps == {"logout", "profile", "list", "get", "update", "remove"}

Presents(r, tk) == r = Request(tk, Null) \/ r = Request(Null, tk)

C10_Good(tk) ==
    /\ tk \in AccessTokens
    /\ now < tk.exp
    /\ tk.sub \in Ids

C10_Bad(tk) ==
    \/ tk = Null
    \/ tk.t = "jwt" /\ tk.key # JwtSecret
    \/ tk.t = "jwt" /\ now >= tk.exp

C10_GateAcceptsFreshRejectsBad ==
    [][req'.op \in GatedOps =>
          \A tk \in TokenInputs :
              Presents(req'.request, tk) =>
                  /\ C10_Good(tk) =>
                        /\ resp'.status # "Unauthorized"
                        /\ resp'.user = [userId |-> tk.sub, email |-> tk.email]
                  /\ C10_Bad(tk) =>
                        /\ resp'.status = "Unauthorized"
                        /\ resp'.user = Null
                        /\ users' = users]_vars

C10_Witness ==
    /\ Succeeded("profile")
    /\ \E tk \in AccessTokens :
          /\ req.request = Request(Null, tk)
          /\ tk.iat = now
          /\ resp.body = [userId |-> tk.sub, email |-> tk.email]
    /\ \E old \in AccessTokens : now >= old.exp
-----------------------------------------------------------------------------
(* C11: once the row of a user is removed, every gated request presenting  *)
(* a token issued to that user, still validly signed and unexpired, is     *)
(* answered Unauthorized, with no identity attached and the table          *)
(* untouched: it never reaches a handler.                                  *)

C11_TokenOfRemovedUser(tk) ==
    /\ tk \in issued
    /\ jwtValid(tk, JwtSecret)
    /\ tk.sub \notin Ids

C11_RemovedUserRejected ==
    [][req'.op \in GatedOps =>
          \A tk \in issued :
              (Presents(req'.request, tk) /\ C11_TokenOfRemovedUser(tk)) =>
                  /\ resp'.status = "Unauthorized"
                  /\ resp'.user = Null
                  /\ users' = users]_vars

C11_Witness ==
    /\ \E op \in GatedOps : Rejected(op)
    /\ Ids # {}
    /\ \E tk \in issued :
          /\ Presents(req.request, tk)
          /\ C11_TokenOfRemovedUser(tk)

-----------------------------------------------------------------------------
(* C12: list, get, update, remove, Logout and profile run only after the   *)
(* gate accepted the request: a request carrying no valid token (neither   *)
(* in the cookie nor in the header) is answered Unauthorized with nothing  *)
(* read from or written to the table, and every other answer of these      *)
(* routes has the identity of a valid token attached.  Register and health *)
(* take no access token and are answered on their own inputs.              *)

ValidAccess(tk) ==
    /\ tk.t = "jwt"
    /\ tk.key = JwtSecret
    /\ now < tk.exp
    /\ tk.sub \in Ids

C12_NoValidToken(r) ==
    ~ValidAccess(r.cookies.access_token) /\ ~ValidAccess(r.bearer)

C12_HandlersBehindGate ==
    [][/\ (req'.op \in GatedOps /\ C12_NoValidToken(req'.request)) =>
              /\ resp' = Failed("Unauthorized", "Unauthorized")
              /\ users' = users
       /\ (req'.op \in GatedOps /\ resp'.status # "Unauthorized") =>
              \E tk \in {req'.request.cookies.access_token, req'.request.bearer} :
                  /\ ValidAccess(tk)
                  /\ resp'.user = [userId |-> tk.sub, email |-> tk.email]
       /\ req'.op = "health" => resp'.status = "OK"
       /\ \A dto \in RegisterDtos, salt \in Salts :
              (Register(dto, salt) /\ findByEmail(dto.email) = Null) =>
                  resp'.status = "OK"]_vars

C12_Witness ==
    /\ Rejected("remove")
    /\ req.request = Request(Null, Null)
    /\ req.id \in Ids-----------------------------------------------------------------------------
(* C13: in every state no two rows hold the same email, whatever Register  *)
(* and update calls came before; the store refuses a create whose email is *)
(* taken, and a Register for a taken email fails and adds no row.          *)

C13_UniqueEmails ==
    \A i, j \in Ids : i # j => users[i].email # users[j].email

C13_CreateRefused ==
    \A dto \in RegisterDtos :
        (\E i \in Ids : users[i].email = dto.email) => createFails(dto)

C13_DuplicateRegisterFails ==
    [][\A dto \in RegisterDtos, salt \in Salts :
          (Register(dto, salt) /\ findByEmail(dto.email) # Null) =>
              /\ resp'.status # "OK"
              /\ users' = users]_vars

-----------------------------------------------------------------------------
(* C14: an update that sets the email of row id to the email of another    *)
(* existing row fails with a store error (no 2xx) and leaves every row,    *)
(* row id included, unchanged.                                             *)

C14_EmailTaken(id, data) ==
    /\ "email" \in DOMAIN data
    /\ \E j \in Ids : j # id /\ users[j].email = data.email

C14_UpdateToTakenEmailFails ==
    [][(/\ req'.op = "update"
        /\ resp'.user # Null
        /\ C14_EmailTaken(req'.id, req'.dto)) =>
              /\ resp'.status = "InternalServerError"
              /\ users' = users]_vars

C14_Witness ==
    /\ req.op = "update"
    /\ resp.status = "InternalServerError"
    /\ req.id \in Ids
    /\ C14_EmailTaken(req.id, req.dto)

-----------------------------------------------------------------------------
(* C15: remove of an id with no row fails with a store error and leaves    *)
(* the table unchanged, while get of an id with no row answers null and    *)
(* raises nothing.                                                         *)

C15_MissingRowRemoveFailsGetNull ==
    [][/\ (req'.op = "remove" /\ resp'.user # Null /\ req'.id \notin Ids) =>
              /\ resp'.status = "InternalServerError"
              /\ users' = users
       /\ (req'.op = "get" /\ resp'.user # Null /\ req'.id \notin Ids) =>
              /\ resp'.status = "OK"
              /\ resp'.body = Null
              /\ users' = users]_vars

C15_Witness ==
    /\ req.op = "remove"
    /\ resp.status = "InternalServerError"
    /\ req.id \notin Ids
    /\ Ids # {}-----------------------------------------------------------------------------
(* C16: the gate judges the access_token cookie whenever that cookie is    *)
(* non-empty and looks at the Bearer header only otherwise: with both      *)
(* present the header is ignored, so an invalid or expired cookie next to  *)
(* a valid header is rejected and a valid cookie next to an invalid header *)
(* is accepted, with the identity of the cookie's claim.                   *)

C16_Accepted(r, tk) ==
    /\ r.status # "Unauthorized"
    /\ r.user = [userId |-> tk.sub, email |-> tk.email]

C16_CookieBeforeHeader ==
    [][req'.op \in GatedOps =>
          LET c == req'.request.cookies.access_token
              b == req'.request.bearer
          IN  /\ (Truthy(c) /\ ValidAccess(c)) => C16_Accepted(resp', c)
              /\ (Truthy(c) /\ ~ValidAccess(c)) =>
                     resp'.status = "Unauthorized"
              /\ (~Truthy(c) /\ ValidAccess(b)) => C16_Accepted(resp', b)
              /\ (~Truthy(c) /\ ~ValidAccess(b)) =>
                     resp'.status = "Unauthorized"]_vars

C16_Witness ==
    /\ Rejected("profile")
    /\ req.request.cookies.access_token \in AccessTokens
    /\ ~ValidAccess(req.request.cookies.access_token)
    /\ ValidAccess(req.request.bearer)

-----------------------------------------------------------------------------
(* C17: Register, Login and Refresh hand tokens out in cookies only: on    *)
(* success exactly the access_token and refresh_token cookies are set, to  *)
(* the pair signed by this call (the refresh one being the value now       *)
(* stored), and the body holds user and message (message alone for         *)
(* Refresh) and no token; on failure no cookie is set.                     *)

CookieOps == {"register", "login", "refresh"}

CookieNamed(r, name) == {c \in r.cookies : c.name = name}

C17_Subject ==
    IF req.op = "refresh" THEN RowOf(req.token) ELSE findByEmail(req.dto.email)

C17_TokensOnlyInCookies ==
    req.op \in CookieOps =>
        /\ resp.status # "OK" => resp.cookies = {}
        /\ resp.status = "OK" =>
              LET payload == [email |-> C17_Subject.email,
                              sub |-> C17_Subject.id]
              IN  /\ Cardinality(resp.cookies) = 2
                  /\ \E c \in CookieNamed(resp, "access_token") :
                        c.value = jwtSign(payload, AccessTTL)
                  /\ \E c \in CookieNamed(resp, "refresh_token") :
                        /\ c.value = jwtSign(payload, RefreshTTL)
                        /\ c.value = C17_Subject.refreshToken
                  /\ DOMAIN resp.body =
                        IF req.op = "refresh" THEN {"message"}
                        ELSE {"user", "message"}
                  /\ req.op # "refresh" =>
                        DOMAIN resp.body.user = {"id", "email", "name"}

C17_Witness ==
    /\ Succeeded("refresh")
    /\ now > 0
    /\ \E c \in CookieNamed(resp, "refresh_token") : c.value # req.token

-----------------------------------------------------------------------------
(* C18: every cookie the service writes, set or cleared, is httpOnly with  *)
(* sameSite strict and is secure exactly when NODE_ENV is production; a    *)
(* set access_token cookie lives 15 minutes and a set refresh_token cookie *)
(* 7 days, each the lifetime of the token it carries.                      *)

Written == IF "cookies" \in DOMAIN resp THEN resp.cookies ELSE {}

C18_CookieFlags ==
    \A c \in Written :
        /\ c.httpOnly
        /\ c.sameSite = "strict"
        /\ c.secure <=> (nodeEnv = "production")
        /\ c.value.t = "jwt" =>
              /\ "maxAge" \in DOMAIN c
              /\ c.maxAge = 1000 * (c.value.exp - c.value.iat)
              /\ c.name = "access_token" => c.maxAge = 15 * 60 * 1000
              /\ c.name = "refresh_token" => c.maxAge = 7 * 24 * 60 * 60 * 1000
        /\ c.value.t # "jwt" => c.value = Str("") /\ "expires" \in DOMAIN c

C18_Witness ==
    /\ nodeEnv = "production"
    /\ Succeeded("login")
    /\ \A c \in resp.cookies : c.secure

-----------------------------------------------------------------------------
(* C19: a successful Logout re-sets both cookies, access_token and         *)
(* refresh_token, with an empty value and an expiry that is not in the     *)
(* future, and does so only once the stored refreshToken is null; a Logout *)
(* that does not succeed clears nothing.                                   *)

C19_LogoutClearsCookies ==
    req.op = "logout" =>
        /\ resp.status = "OK" =>
              /\ {c.name : c \in resp.cookies} = {"access_token", "refresh_token"}
              /\ \A c \in resp.cookies :
                    /\ c.value = Str("")
                    /\ c.expires = 0
                    /\ c.expires <= now
              /\ users[resp.user.userId].refreshToken = Null
        /\ resp.status # "OK" => resp.cookies = {}

C19_Witness ==
    /\ Succeeded("logout")
    /\ Cardinality(resp.cookies) = 2
    /\ now > 0

-----------------------------------------------------------------------------
(* C20: Logout is unconditional and idempotent: for an existing user it    *)
(* succeeds and sets the refreshToken of that row to null whether the slot *)
(* held a token or was null already, changes nothing else, and a second    *)
(* logout in the resulting state succeeds and leaves the table as it is.   *)

C20_LogoutIdempotent ==
    [][\A id \in Ids :
          (req'.op = "logout" /\ resp'.user # Null /\ resp'.user.userId = id) =>
              /\ resp'.status = "OK"
              /\ users' = [users EXCEPT ![id].refreshToken = Null]
              /\ logout(id)'.error = "none"
              /\ logout(id)'.users = users']_vars

C20_Witness ==
    /\ Succeeded("logout")
    /\ \E i \in Ids : users[i].refreshToken # Null-----------------------------------------------------------------------------
(* C23: every successful Register, Login and Refresh hands out a refresh   *)
(* token that differs from every refresh token issued to the same user     *)
(* before, however little time lies between the two issuances.             *)

C23_RefreshTokenIsNew ==
    [][(req'.op \in CookieOps /\ resp'.status = "OK") =>
          \A c \in CookieNamed(resp', "refresh_token") :
              c.value \notin {tk \in RefreshTokens : tk.sub = c.value.sub}]_vars

-----------------------------------------------------------------------------
(* C24: GET /health needs no authentication and its body carries status,   *)
(* timestamp, uptime and the database connection status.                   *)

C24_HealthBody ==
    req.op = "health" =>
        /\ resp.status = "OK"
        /\ {"status", "timestamp", "uptime", "database"} \subseteq DOMAIN resp.body

-----------------------------------------------------------------------------
(* C26: Refresh accepts a token exactly when it is validly signed,         *)
(* unexpired and equal to the refreshToken stored on the row of the user   *)
(* it was issued to (the row with the id in its claim), also after updates *)
(* of that user's name, age or email.                                      *)

C26_StoredOnOwner(tk) ==
    /\ jwtValid(tk, JwtSecret)
    /\ tk.sub \in Ids
    /\ users[tk.sub].refreshToken = tk

C26_RefreshIffStoredOnOwner ==
    \A tk \in TokenInputs : Accepts(tk) <=> C26_StoredOnOwner(tk)

-----------------------------------------------------------------------------
(* C27: when Register, Login or Refresh has succeeded, the refreshToken on *)
(* the row of the user it served equals the refresh token it returned, and *)
(* both returned tokens carry {sub: id of that row, email: its email}.     *)

C27_StoredEqualsReturned ==
    (req.op \in CookieOps /\ resp.status = "OK") =>
        \E id \in Ids :
            /\ \A c \in resp.cookies :
                  jwtPayload(c.value) = [email |-> users[id].email, sub |-> id]
            /\ \E c \in CookieNamed(resp, "refresh_token") :
                  users[id].refreshToken = c.value
            /\ req.op # "refresh" => resp.body.user.id = id

C27_Witness ==
    /\ Succeeded("login")
    /\ updates = 1
    /\ Cardinality(Ids) = 2

-----------------------------------------------------------------------------
(* C28: a Login, Register or Refresh that fails (wrong credentials, taken  *)
(* email, missing cookie, bad signature, expiry, mismatch, unknown user)   *)
(* leaves every row and the id sequence as they were; a failed Refresh     *)
(* neither clears nor replaces the stored refreshToken.                    *)

C28_FailedCallsWriteNothing ==
    [][(req'.op \in CookieOps /\ resp'.status # "OK") =>
          /\ users' = users
          /\ nextId' = nextId]_vars

C28_Witness ==
    /\ Rejected("refresh")
    /\ req.token \in RefreshTokens
    /\ now >= req.token.exp
    /\ RowOf(req.token) # Null
    /\ RowOf(req.token).refreshToken = req.token

-----------------------------------------------------------------------------
(* C29: list, get and update never change the refreshToken of any row,     *)
(* whatever body the client sends: the slot changes only in Register,      *)
(* Login, Refresh and Logout.                                              *)

C29_OnlySessionCallsWriteToken ==
    [][\A id \in Ids \cap DOMAIN users' :
          users'[id].refreshToken # users[id].refreshToken =>
              req'.op \in CookieOps \cup {"logout"}]_vars

-----------------------------------------------------------------------------
(* C30: an update that succeeds sets exactly the fields of its body on row *)
(* id: every other field of that row, its id and every other row stay as   *)
(* they were; an update that fails, as for an id with no row, changes      *)
(* nothing.                                                                *)

-----------------------------------------------------------------------------
(* Claims about calls that overlap or lose the store (SpecAsync)           *)

Done(c, op) == calls[c].pc = "done" /\ calls[c].op = op

\* C21: a failure the session manager does not anticipate (the store cannot
\* be reached, a constraint is violated, the row to update is gone) raised
\* during Register, Login, Refresh or Logout is never reported to the caller
\* as Unauthorized.
C21_StoreErrorsPropagate ==
    \A c \in Callers :
        (calls[c].pc = "done"
         /\ calls[c].raised \in {"StoreError", "P2002", "P2025"})
            => calls[c].status # "Unauthorized"

\* C22: a Register call that failed left no row behind: the table holds a
\* row created by a Register call only if that call returned its tokens.
C22_NoRowWithoutTokens ==
    \A c \in Callers :
        (Done(c, "register") /\ calls[c].status # "OK")
            => \/ calls[c].user = Null
               \/ calls[c].user.id \notin Ids

\* Caller c received a pair from a Refresh call.
Refreshed(c) == Done(c, "refresh") /\ calls[c].status = "OK"

\* C25: two Refresh calls that presented the same token can both return a
\* pair.  The write of the call that finishes later replaces what the
\* earlier one stored, so when the two returned refresh tokens differ the
\* row holds one of them and Refresh rejects the other, although its caller
\* received it as the result of a successful call.
C25_LaterRefreshOverwrites ==
    /\ [](\A c1, c2 \in Callers :
            (/\ Refreshed(c1) /\ Refreshed(c2)
             /\ calls[c1].arg = calls[c2].arg
             /\ calls[c1].tokens # calls[c2].tokens
             /\ RowOf(calls[c1].arg) # Null)
            => /\ RowOf(calls[c1].arg).refreshToken
                     \in {calls[c1].tokens.refresh_token,
                          calls[c2].tokens.refresh_token}
               /\ ~(/\ Accepts(calls[c1].tokens.refresh_token)
                    /\ Accepts(calls[c2].tokens.refresh_token)))
    /\ [][\A c1, c2 \in Callers :
            (/\ Refreshed(c1)
             /\ calls[c2].pc = "store" /\ calls[c2].op = "refresh"
             /\ calls[c2].arg = calls[c1].arg
             /\ calls[c2].tokens # calls[c1].tokens
             /\ Refreshed(c2)')
            => /\ RowOf(calls[c2].arg)'.refreshToken
                     = calls[c2].tokens.refresh_token
               /\ ~Accepts(calls[c1].tokens.refresh_token)']_vars

\* Both calls passed the comparison with the same presented token and both
\* returned a new pair; one caller's token is still within its lifetime and
\* is rejected, the other caller's token is accepted.
C25_Witness ==
    \E c1, c2 \in Callers :
        /\ Refreshed(c1) /\ Refreshed(c2)
        /\ calls[c1].arg = calls[c2].arg
        /\ calls[c1].tokens.refresh_token # calls[c2].tokens.refresh_token
        /\ calls[c1].tokens.refresh_token # calls[c1].arg
        /\ calls[c2].tokens.refresh_token # calls[c1].arg
        /\ jwtValid(calls[c1].tokens.refresh_token, IssuerSecret)
        /\ ~Accepts(calls[c1].tokens.refresh_token)
        /\ Accepts(calls[c2].tokens.refresh_token)

-----------------------------------------------------------------------------
(* Claims about the session lifecycle and token identity                   *)

\* The gate lets a request through that presents tk as its cookie.
GateAccepts(tk) == JwtStrategy(Request(tk, Null)) # Null

\* A successful Refresh hands out an access token the gate accepts.
C31_RefreshRestoresAccess ==
    Succeeded("refresh") =>
        /\ GateAccepts(AccessCookie(resp))
        /\ JwtStrategy(Request(AccessCookie(resp), Null)).userId
              = RowOf(req.token).id

\* Refresh hands out nothing for an expired token or a logged-out user.
C31_NoRefreshWhenExpiredOrLoggedOut ==
    \A tk \in RefreshTokens :
        (\/ now >= tk.exp
         \/ RowOf(tk) = Null
         \/ RowOf(tk).refreshToken = Null) => ~Accepts(tk)

\* A logged-out user gets a token Refresh accepts only by a Login.
C31_OnlyLoginAfterLogout ==
    [][\A tk \in RefreshTokens :
          (/\ RowOf(tk) # Null
           /\ RowOf(tk).refreshToken = Null
           /\ Accepts(tk)') => req'.op = "login"]_vars

\* C31: a user whose access token has expired and whose stored refresh
\* token has not gets, by one successful Refresh, an access token the gate
\* accepts; a user whose refresh token has expired or who has logged out
\* gets nothing from Refresh and is authenticated again only by a Login.
C31_SessionLifecycle ==
    /\ []C31_RefreshRestoresAccess
    /\ []C31_NoRefreshWhenExpiredOrLoggedOut
    /\ C31_OnlyLoginAfterLogout

-----------------------------------------------------------------------------
(* C32: two Register calls with the same email                            *)

\* Both callers called Register with the same email and have their answer,
\* and no third caller has called Register with that email.
BothRegistered(c1, c2) ==
    /\ c1 # c2
    /\ Done(c1, "register") /\ Done(c2, "register")
    /\ calls[c1].arg.email = calls[c2].arg.email
    /\ \A c \in Callers \ {c1, c2} :
          \/ calls[c] = Idle
          \/ calls[c].op # "register"
          \/ calls[c].arg.email # calls[c1].arg.email

\* The store answered every round trip of the call.
StoreReached(c) == calls[c].raised \notin {"StoreError", "P2025"}

\* Ids are handed out in sequence and never reused, so this says that no
\* row was ever deleted.
NothingRemoved == Cardinality(Ids) = nextId - 1

\* C32: two Register calls with the same email, no row with that email
\* before them (not both were answered "User already exists"), the store
\* reached by both and no row deleted meanwhile: whatever the interleaving,
\* the table holds exactly one row with that email, exactly one call
\* returned tokens, that row is the one it created, and the other call
\* failed and created nothing.
C32_OneRegisterWins ==
    \A c1, c2 \in Callers :
        (/\ BothRegistered(c1, c2)
         /\ StoreReached(c1) /\ StoreReached(c2)
         /\ ~(/\ calls[c1].raised = "UnauthorizedException"
              /\ calls[c2].raised = "UnauthorizedException")
         /\ NothingRemoved)
        => /\ Cardinality({i \in Ids :
                             users[i].email = calls[c1].arg.email}) = 1
           /\ \E w, l \in {c1, c2} :
                 /\ w # l
                 /\ calls[w].status = "OK"
                 /\ calls[l].status # "OK"
                 /\ calls[l].user = Null
                 /\ calls[l].tokens = Null
                 /\ calls[w].user.id \in Ids
                 /\ users[calls[w].user.id].email = calls[w].arg.email

\* Both calls found no row with the email and both went on to create; the
\* second create hit the unique constraint.
C32_Witness ==
    \E c1, c2 \in Callers :
        /\ BothRegistered(c1, c2)
        /\ NothingRemoved
        /\ calls[c1].status = "OK"
        /\ calls[c2].raised = "P2002"
        /\ Cardinality({i \in Ids : users[i].email = calls[c1].arg.email}) = 1

-----------------------------------------------------------------------------
(* C33: access and refresh tokens differ only in their expiry              *)

\* The gate accepts a refresh token, as cookie or as Bearer header, while
\* it is unexpired and the row of its subject exists.
C33_GateAcceptsRefreshToken ==
    \A tk \in RefreshTokens :
        (now < tk.exp /\ tk.sub \in Ids)
            => /\ JwtStrategy(Request(tk, Null)) # Null
               /\ JwtStrategy(Request(Null, tk)) # Null

\* Refresh rejects every access token.
C33_RefreshRejectsAccessToken ==
    \A tk \in AccessTokens : ~Accepts(tk)

\* C33: both kinds of token carry the same claim under the same secret, so
\* the gate accepts a refresh token as an access credential for its whole
\* lifetime, while Refresh rejects every access token because no row ever
\* stores one.
C33_TokensDifferOnlyInExpiry ==
    /\ C33_GateAcceptsRefreshToken
    /\ C33_RefreshRejectsAccessToken

-----------------------------------------------------------------------------
(* C34: Logout and rotation do not revoke access                           *)

\* C34: the gate accepts an issued token exactly while it is unexpired and
\* the row of its subject exists; in particular a token accepted before a
\* Logout, Login or Refresh is accepted after it.
C34_OnlyExpiryOrRemovalRevokes ==
    /\ [](\A tk \in issued :
            GateAccepts(tk) <=> (now < tk.exp /\ tk.sub \in Ids))
    /\ [][req'.op \in {"logout", "login", "refresh"} =>
            \A tk \in issued : GateAccepts(tk) => GateAccepts(tk)']_vars

\* The user has logged out with this access token, the row holds no
\* refresh token, and the gate still accepts the access token.
C34_Witness ==
    /\ Succeeded("logout")
    /\ users[resp.user.userId].refreshToken = Null
    /\ req.request.cookies.access_token \in AccessTokens
    /\ GateAccepts(req.request.cookies.access_token)

-----------------------------------------------------------------------------
(* C35: Refresh finds the user by the email of the claim                   *)

\* Row id holds a refresh token issued to it whose claim carries an email
\* the row no longer has.
Renamed(id) ==
    /\ users[id].refreshToken # Null
    /\ users[id].refreshToken.sub = id
    /\ users[id].refreshToken.email # users[id].email

\* The stored token of a renamed user is rejected by Refresh.
C35_StoredTokenRejected ==
    \A id \in Ids : Renamed(id) => ~Accepts(users[id].refreshToken)

\* While the email stays changed, only a Login gives the user a token that
\* Refresh accepts.
C35_OnlyLoginRestores ==
    [][\A id \in Ids \cap DOMAIN users' :
          (/\ Renamed(id)
           /\ users'[id].email = users[id].email
           /\ LiveTokens(id) = {}
           /\ LiveTokens(id)' # {}) => req'.op = "login"]_vars

\* C35: after an update changed a user's email, Refresh rejects the token
\* still stored on that row, also when another user has taken the old
\* email, and the user gets new tokens only through Login.
C35_RenamedUserMustLogin ==
    /\ []C35_StoredTokenRejected
    /\ C35_OnlyLoginRestores

-----------------------------------------------------------------------------
(* C36: a token is never resolved to another user                          *)

\* The identity the gate attaches carries the subject of the token.
C36_GateKeepsSubject ==
    \A tk \in issued :
        GateAccepts(tk) => JwtStrategy(Request(tk, Null)).userId = tk.sub

\* Refresh accepts a token only for the row of its subject, and the pair it
\* returns is for that subject.
C36_RefreshKeepsSubject ==
    /\ \A tk \in issued : Accepts(tk) => RowOf(tk).id = tk.sub
    /\ Succeeded("refresh") =>
          /\ AccessCookie(resp).sub = req.token.sub
          /\ RefreshCookie(resp).sub = req.token.sub

\* C36: a token issued to one user is never resolved to another: the gate
\* attaches the id of the token's subject or rejects, and Refresh neither
\* writes a token onto another user's row nor returns tokens for it.
C36_TokenStaysWithItsUser ==
    /\ C36_GateKeepsSubject
    /\ C36_RefreshKeepsSubject

-----------------------------------------------------------------------------
(* C37: the attached identity is the claim of the token                    *)

\* C37: the identity the gate attaches, and GET /auth/profile returns, is
\* the subject and email of the presented token, whatever the row holds
\* now: after an update of the email the old token is still accepted and
\* profile answers with the old email and the same user id.
C37_ProfileIsTokenClaim ==
    Succeeded("profile") =>
        LET tk == jwtFromRequest(req.request)
        IN  /\ resp.user = [userId |-> tk.sub, email |-> tk.email]
            /\ resp.body = resp.user
            /\ resp.body.userId \in Ids

\* Profile was answered with an email the row no longer has.
C37_Witness ==
    /\ Succeeded("profile")
    /\ jwtFromRequest(req.request) \in AccessTokens
    /\ users[resp.body.userId].email # resp.body.email

-----------------------------------------------------------------------------
(* C38: the user routes check authentication, not ownership                *)

\* C38: a caller the gate let through changes or deletes any existing row,
\* its own or another user's: an update that the unique email allows is
\* applied, a remove is applied; after the remove the gate rejects the
\* tokens of the deleted user and goes on accepting the others it accepted.
C38_AnyCallerAnyRow ==
    /\ [][(/\ req'.op = "update"
           /\ resp'.user # Null
           /\ req'.id \in Ids
           /\ ~C14_EmailTaken(req'.id, req'.dto))
          => /\ resp'.status = "OK"
             /\ users' = updated(users, req'.id, req'.dto)]_vars
    /\ [][(/\ req'.op = "remove"
           /\ resp'.user # Null
           /\ req'.id \in Ids)
          => /\ resp'.status = "OK"
             /\ users' = removed(req'.id)
             /\ \A tk \in issued :
                   /\ tk.sub = req'.id => ~GateAccepts(tk)'
                   /\ (tk.sub # req'.id /\ GateAccepts(tk))
                         => GateAccepts(tk)']_vars

\* A caller has deleted another user's row; its own token is accepted and
\* a token of the deleted user, still unexpired, is not.
C38_Witness ==
    /\ Succeeded("remove")
    /\ resp.user.userId # req.id
    /\ req.id \notin Ids
    /\ GateAccepts(req.request.cookies.access_token)
    /\ \E tk \in issued : tk.sub = req.id /\ now < tk.exp /\ ~GateAccepts(tk)

=============================================================================
